---- MODULE Spec2Model ----
(***************************************************************************)
(* The workflow state store of AIA (frontend/src/store/workflowStore.ts):  *)
(* a zustand store wrapped in the persist middleware, writing a projection *)
(* of its state to localStorage through safeStorage after every set().     *)
(*                                                                         *)
(* JS values: a string that the code takes apart (an image payload, a      *)
(* thumbnail) is a sequence of one-character strings; null and undefined   *)
(* are the one-element sequences Null and Undefined, whose element is no   *)
(* character.  A string the code only copies (a schema, the paper text, a  *)
(* language) is a TLA+ string.                                             *)
(***************************************************************************)
EXTENDS Integers, Sequences, FiniteSets, TLC

VARIABLES
    state,       \* the zustand state object (the data fields of WorkflowState)
    storage,     \* localStorage['academic-illustrator-storage'], parsed; Absent if unset
    storageMode, \* "normal", or "denied": localStorage.setItem throws a non-quota error
    quota,       \* capacity of localStorage in this browser, in the units of SizeOf
    watched,     \* the actions the history variables `last' and `saved' record
    created,     \* number of history items created so far (source of ids and timestamps)
    last,        \* history variable: the last action if it is a watched one, with its
                 \* argument, its write attempts, whether it threw to its caller and
                 \* the state fields it changed; "other" after an unwatched action
    streak,      \* history variable: ids added by addToHistory since the last delete/clear
    passed,      \* history variable: id -> the imageUrl argument the live item was made from
    gateway,     \* the invocation of generateSchema or renderImage in progress or ended
    component,   \* ArchitectStep: its React state and the handleGenerate call in progress
    hydration,   \* persist's rehydration of the store: its position and what it read
    saved,       \* history variable: the state in memory when a write last succeeded
    inflight     \* the invocations of the gateway that run at the same time, by caller

vars ==
    <<state, storage, storageMode, quota, watched, created, last, streak, passed,
      gateway, component, hydration, saved, inflight>>

(***************************************************************************)
(* Bounds of the model.                                                    *)
(***************************************************************************)
MaxAdds == 6          \* addToHistory calls of the capacity workload
MaxItems == 3         \* addToHistory calls of the history workload
MaxRefs == 1          \* reference images held at once
MaxPayloadLen == 105  \* longest image payload of the thumbnail workload
MaxImages == 2        \* images passed to one invocation of the gateway, or held by ArchitectStep
MaxPieces == 4        \* pieces a response text of the extraction workload is made of

(***************************************************************************)
(* Program constants.                                                      *)
(***************************************************************************)
MAX_HISTORY_ITEMS == 5
THUMB_CHARS == 100

Null == <<"null">>
Undefined == <<"undefined">>
Absent == [absent |-> TRUE]

defaultLogicConfig ==
    [baseUrl |-> "https://api.deepseek.com", apiKey |-> "", modelName |-> "deepseek-chat"]

defaultVisionConfig ==
    [baseUrl |-> "https://generativelanguage.googleapis.com/v1beta", apiKey |-> "",
     modelName |-> "gemini-3-pro-image-preview"]

userConfig == [baseUrl |-> "https://api.example", apiKey |-> "sk-1", modelName |-> "m"]

(***************************************************************************)
(* Inputs.                                                                 *)
(***************************************************************************)
Languages == {"en", "zh"}
Steps == 1..3
Schemas == {"s1", "s2"}
PaperContents == {"", "paper"}

\* An image payload of n characters; the characters after the first
\* THUMB_CHARS are all `tail'.
Payload(n, tail) ==
    [i \in 1..n |-> IF i > THUMB_CHARS THEN tail
                    ELSE IF i % 3 = 1 THEN "d" ELSE IF i % 3 = 2 THEN "A" ELSE "/"]

ShortImage == Payload(4, "x")
Images == {Null, ShortImage}
AllPayloads ==
    {Null} \cup {Payload(n, t) : n \in 0..MaxPayloadLen, t \in {"x", "."}}

\* The argument of addToHistory: Omit<HistoryItem, 'id' | 'timestamp' | 'thumbnail'>.
HistoryArgs == {[schema |-> "s1", imageUrl |-> Null],
                [schema |-> "s2", imageUrl |-> ShortImage]}
CapArgs == {[schema |-> "s1", imageUrl |-> ShortImage]}
ThumbArgs == {[schema |-> "s1", imageUrl |-> p] : p \in AllPayloads}

(***************************************************************************)
(* Helpers on sequences.                                                   *)
(***************************************************************************)
Take(s, n) == SubSeq(s, 1, IF n < Len(s) THEN n ELSE Len(s))

Ids(h) == {h[i].id : i \in 1..Len(h)}

\* String.prototype.includes: p occurs in t as a contiguous run
Includes(t, p) ==
    \E k \in 0..(Len(t) - Len(p)) : SubSeq(t, k + 1, k + Len(p)) = p

(***************************************************************************)
(* createThumbnail                                                         *)
(***************************************************************************)
createThumbnail_whole(imageUrl) ==
    IF imageUrl = Null \/ imageUrl = <<>> THEN Undefined
    ELSE imageUrl \o <<".", ".", ".">>

createThumbnail(imageUrl) ==
    IF imageUrl = Null \/ imageUrl = <<>> THEN Undefined
    ELSE Take(imageUrl, THUMB_CHARS) \o <<".", ".", ".">>

(***************************************************************************)
(* The persist middleware: partialize, JSON.stringify, safeStorage.setItem *)
(***************************************************************************)
partialize_keepImage(s) ==
    [logicConfig |-> s.logicConfig,
     visionConfig |-> s.visionConfig,
     language |-> s.language,
     paperContent |-> s.paperContent,
     generatedSchema |-> s.generatedSchema,
     generatedImage |-> s.generatedImage,
     history |-> [i \in 1..Len(s.history) |-> [s.history[i] EXCEPT !.imageUrl = Null]]]

partialize_swapsTexts(s) ==
    [logicConfig |-> s.logicConfig,
     visionConfig |-> s.visionConfig,
     language |-> s.language,
     paperContent |-> s.generatedSchema,
     generatedSchema |-> s.generatedSchema,
     history |-> [i \in 1..Len(s.history) |-> [s.history[i] EXCEPT !.imageUrl = Null]]]

partialize(s) ==
    [logicConfig |-> s.logicConfig,
     visionConfig |-> s.visionConfig,
     language |-> s.language,
     paperContent |-> s.paperContent,
     generatedSchema |-> s.generatedSchema,
     history |-> [i \in 1..Len(s.history) |-> [s.history[i] EXCEPT !.imageUrl = Null]]]

\* a property of an object as the program reads it: an absent key, as in an
\* item that JSON.parse returned, reads as undefined
Get(h, k) == IF k \in DOMAIN h THEN h[k] ELSE Undefined

\* JSON.stringify drops an object key whose value is undefined; null is kept.
\* Of a HistoryItem's fields only thumbnail (thumbnail?: string) can be undefined.
StringifyItem(h) ==
    IF Get(h, "thumbnail") = Undefined THEN [k \in DOMAIN h \ {"thumbnail"} |-> h[k]] ELSE h

\* createJSONStorage(...).setItem serialises {state, version}; the stored text
\* is modelled by the value it parses to.
JSONStringify(p) ==
    [state |-> [p EXCEPT !.history = [i \in 1..Len(p.history) |-> StringifyItem(p.history[i])]], version |-> 0]

\* Size of the stored text, in abstract units: one per history item, and the
\* text fields by their weight.
TextSize(t) == IF t = "" THEN 0 ELSE IF t = "s2" THEN 2 ELSE 1
SizeOf(v) ==
    Len(v.state.history) + TextSize(v.state.paperContent) + TextSize(v.state.generatedSchema)

\* safeStorage.setItem: the outcome of one write of v over the stored value st.
\* "quota" is rethrown to the caller; any other exception is swallowed.
SetItem(st, v) ==
    IF storageMode = "denied" THEN [storage |-> st, outcome |-> "other", value |-> v]
    ELSE IF SizeOf(v) > quota THEN [storage |-> st, outcome |-> "quota", value |-> v]
    ELSE [storage |-> v, outcome |-> "ok", value |-> v]

\* zustand's set(partial): a shallow merge
Merge(s, partial) ==
    [k \in DOMAIN s |-> IF k \in DOMAIN partial THEN partial[k] ELSE s[k]]

PersistSet_writesStale(s, st, partial) ==
    LET s1 == Merge(s, partial)
        w == SetItem(st, JSONStringify(partialize(s)))
    IN  [state |-> s1, storage |-> w.storage,
         write |-> [value |-> w.value, outcome |-> w.outcome]]

\* persist's set: the in-memory merge first, then the write of the projection
PersistSet(s, st, partial) ==
    LET s1 == Merge(s, partial)
        w == SetItem(st, JSONStringify(partialize(s1)))
    IN  [state |-> s1, storage |-> w.storage,
         write |-> [value |-> w.value, outcome |-> w.outcome]]

(***************************************************************************)
(* Initial state: the store as created and hydrated, nothing stored        *)
(* before.                                                                 *)
(***************************************************************************)
InitialState ==
    [logicConfig |-> defaultLogicConfig,
     visionConfig |-> defaultVisionConfig,
     language |-> "zh",
     currentStep |-> 1,
     paperContent |-> "",
     generatedSchema |-> "",
     generatedImage |-> Null,
     referenceImages |-> <<>>,
     history |-> <<>>,
     storageWarning |-> FALSE,
     _hasHydrated |-> FALSE]

\* `last.arg' is the tuple of the action's arguments that the properties read
NoArg == <<>>

StoreActions ==
    {"setLogicConfig", "setVisionConfig", "setLanguage", "setCurrentStep",
     "setPaperContent", "setGeneratedSchema", "setGeneratedImage",
     "addReferenceImage", "removeReferenceImage", "clearReferenceImages",
     "addToHistory", "loadFromHistory", "deleteFromHistory", "clearHistory",
     "resetProject", "setStorageWarning"}

\* no invocation of the gateway yet
GatewayIdle == [phase |-> "idle"]

\* ArchitectStep as mounted: useState(false), useState([]), useState([])
ComponentIdle ==
    [isGenerating |-> FALSE, uploadedFiles |-> <<>>, processedImages |-> <<>>,
     phase |-> "idle", toast |-> <<>>]

\* the callers that invoke the gateway at the same time, none of them yet
Callers == {1, 2}
NoFlights == [c \in Callers |-> GatewayIdle]

\* a stored text that JSON.parse rejects
Corrupt == [corrupt |-> TRUE]

\* persist's read of the stored value when it hydrates: safeStorage.getItem
\* (null when nothing is stored or localStorage cannot be read), JSON.parse,
\* and the check of the version.  failed: the parse threw.  persisted: <<the
\* stored state>>, or <<>> when there is none to merge.
ReadStored(st, mode) ==
    IF mode = "denied" \/ st = Absent THEN [failed |-> FALSE, persisted |-> <<>>]
    ELSE IF st = Corrupt THEN [failed |-> TRUE, persisted |-> <<>>]
    ELSE IF st.version # 0 THEN [failed |-> FALSE, persisted |-> <<>>]
    ELSE [failed |-> FALSE, persisted |-> <<st.state>>]

MergePersisted_keepsDefaults(current, persisted) == current

\* persist's default merge: { ...currentState, ...persistedState }
MergePersisted(current, persisted) ==
    IF persisted = <<>> THEN current ELSE Merge(current, persisted[1])

\* the store after its creation and the hydration that create() runs: what
\* was read is merged, then onRehydrateStorage's callback calls
\* setHasHydrated(true), whose set() writes the stored value
Hydrated(s, st, mode) ==
    LET r == ReadStored(st, mode)
    IN  IF r.failed THEN s
        ELSE [MergePersisted(s, r.persisted) EXCEPT !._hasHydrated = TRUE]

HydrationDone == [phase |-> "done"]

InitWith(modes, capacity, watch) ==
    /\ gateway = GatewayIdle
    /\ component = ComponentIdle
    /\ hydration = HydrationDone
    /\ storageMode \in modes
    /\ quota = capacity
    /\ state = Hydrated(InitialState, Absent, storageMode)
    /\ storage = SetItem(Absent, JSONStringify(partialize(state))).storage
    /\ saved = IF "reload" \in watch /\ storage # Absent THEN state ELSE Absent
    /\ inflight = NoFlights
    /\ watched = watch
    /\ created = 0
    /\ last = [action |-> "create", arg |-> NoArg, writes |-> <<>>, escaped |-> FALSE,
               changed |-> {}]
    /\ streak = <<>>
    /\ passed = <<>>

(***************************************************************************)
(* Actions.                                                                *)
(***************************************************************************)
Changed(s, t) == {k \in DOMAIN s : s[k] # t[k]}

Record(name, arg, writes, escaped, changed) ==
    IF name \in watched
    THEN [action |-> name, arg |-> arg, writes |-> writes, escaped |-> escaped,
          changed |-> changed]
    ELSE [action |-> "other", arg |-> NoArg, writes |-> <<>>, escaped |-> FALSE,
          changed |-> {}]

\* the state in memory at the last write that succeeded, after the set() r;
\* kept in the workloads that reload the store
SavedAfter(sv, r) ==
    IF "reload" \in watched /\ r.write.outcome = "ok" THEN r.state ELSE sv

\* An action of the form  name: (arg) => set(partial).  The exception of a
\* failed write leaves set() after the in-memory merge and nothing catches it.
SimpleSet(name, arg, partial) ==
    LET r == PersistSet(state, storage, partial)
    IN  /\ state' = r.state
        /\ storage' = r.storage
        /\ last' = Record(name, arg, <<r.write>>, r.write.outcome = "quota",
                           Changed(state, r.state))
        /\ saved' = SavedAfter(saved, r)

Live(p, h) == [i \in (DOMAIN p \cap Ids(h)) |-> p[i]]

setLogicConfig ==
    \E config \in {defaultLogicConfig, userConfig} :
        /\ SimpleSet("setLogicConfig", NoArg, [logicConfig |-> config])
        /\ UNCHANGED <<gateway, component, hydration, storageMode, quota, watched, created, streak, passed, inflight>>

setVisionConfig ==
    \E config \in {defaultVisionConfig, userConfig} :
        /\ SimpleSet("setVisionConfig", NoArg, [visionConfig |-> config])
        /\ UNCHANGED <<gateway, component, hydration, storageMode, quota, watched, created, streak, passed, inflight>>

setLanguage ==
    \E lang \in Languages :
        /\ SimpleSet("setLanguage", NoArg, [language |-> lang])
        /\ UNCHANGED <<gateway, component, hydration, storageMode, quota, watched, created, streak, passed, inflight>>

setCurrentStep ==
    \E step \in Steps :
        /\ SimpleSet("setCurrentStep", NoArg, [currentStep |-> step])
        /\ UNCHANGED <<gateway, component, hydration, storageMode, quota, watched, created, streak, passed, inflight>>

setPaperContent ==
    \E content \in PaperContents :
        /\ SimpleSet("setPaperContent", NoArg, [paperContent |-> content])
        /\ UNCHANGED <<gateway, component, hydration, storageMode, quota, watched, created, streak, passed, inflight>>

setGeneratedSchema ==
    \E schema \in Schemas \cup {""} :
        /\ SimpleSet("setGeneratedSchema", NoArg, [generatedSchema |-> schema])
        /\ UNCHANGED <<gateway, component, hydration, storageMode, quota, watched, created, streak, passed, inflight>>

setGeneratedImage ==
    \E image \in Images :
        /\ SimpleSet("setGeneratedImage", NoArg, [generatedImage |-> image])
        /\ UNCHANGED <<gateway, component, hydration, storageMode, quota, watched, created, streak, passed, inflight>>

addReferenceImage ==
    \E image \in {ShortImage} :
        /\ Len(state.referenceImages) < MaxRefs
        /\ SimpleSet("addReferenceImage", NoArg,
                     [referenceImages |-> Append(state.referenceImages, image)])
        /\ UNCHANGED <<gateway, component, hydration, storageMode, quota, watched, created, streak, passed, inflight>>

\* referenceImages.filter((_, i) => i !== index), index counted from 0
removeReferenceImage ==
    \E index \in 0..MaxRefs :
        /\ LET refs == state.referenceImages
               kept == {i \in 1..Len(refs) : i - 1 # index}
               rank(i) == Cardinality({j \in kept : j <= i})
           IN  SimpleSet("removeReferenceImage", <<index>>,
                         [referenceImages |->
                             [n \in 1..Cardinality(kept) |->
                                 refs[CHOOSE i \in kept : rank(i) = n]]])
        /\ UNCHANGED <<gateway, component, hydration, storageMode, quota, watched, created, streak, passed, inflight>>

clearReferenceImages ==
    /\ SimpleSet("clearReferenceImages", NoArg, [referenceImages |-> <<>>])
    /\ UNCHANGED <<gateway, component, hydration, storageMode, quota, watched, created, streak, passed, inflight>>

setStorageWarning ==
    \E show \in BOOLEAN :
        /\ SimpleSet("setStorageWarning", NoArg, [storageWarning |-> show])
        /\ UNCHANGED <<gateway, component, hydration, storageMode, quota, watched, created, streak, passed, inflight>>

NewItem_keepImage(item, n) ==
    [schema |-> item.schema,
     id |-> n,
     timestamp |-> n,
     thumbnail |-> createThumbnail(item.imageUrl),
     imageUrl |-> item.imageUrl]

\* The new HistoryItem.  crypto.randomUUID() is a token no other item has and
\* Date.now() a clock reading: both are modelled by the item's serial number n.
NewItem(item, n) ==
    [schema |-> item.schema,
     id |-> n,
     timestamp |-> n,
     thumbnail |-> createThumbnail(item.imageUrl),
     imageUrl |-> Null]

NewHistory_keepMax(newItem, history) ==
    <<newItem>> \o Take(history, MAX_HISTORY_ITEMS)

NewHistory_keepsOldest(newItem, history) ==
    <<newItem>> \o SubSeq(history,
                          IF Len(history) > MAX_HISTORY_ITEMS - 1
                          THEN Len(history) - MAX_HISTORY_ITEMS + 2 ELSE 1,
                          Len(history))

NewHistory(newItem, history) ==
    <<newItem>> \o Take(history, MAX_HISTORY_ITEMS - 1)

addToHistoryOf_keepsWarning(args, limit) ==
    \E item \in args :
        /\ created < limit
        /\ LET newItem == NewItem(item, created + 1)
               newHistory == NewHistory(newItem, state.history)
               r1 == PersistSet(state, storage,
                                [history |-> newHistory])
               r2 == PersistSet(r1.state, r1.storage, [storageWarning |-> TRUE])
           IN  /\ IF r1.write.outcome = "quota"
                  THEN /\ state' = r2.state
                       /\ storage' = r2.storage
                       /\ last' = Record("addToHistory", <<created + 1>>,
                                          <<r1.write, r2.write>>,
                                          r2.write.outcome = "quota",
                                          Changed(state, r2.state))
                       /\ saved' = SavedAfter(saved, r2)
                  ELSE /\ state' = r1.state
                       /\ storage' = r1.storage
                       /\ last' = Record("addToHistory", <<created + 1>>, <<r1.write>>,
                                          FALSE, Changed(state, r1.state))
                       /\ saved' = SavedAfter(saved, r1)
               /\ created' = created + 1
               /\ streak' = Append(streak, created + 1)
               /\ passed' = Live((created + 1) :> item.imageUrl @@ passed, newHistory)
        /\ UNCHANGED <<gateway, component, hydration, storageMode, quota, watched, inflight>>

\* addToHistory with its argument drawn from args, called at most limit times.
\* The catch block's set() writes again: an exception of that write escapes.
addToHistoryOf(args, limit) ==
    \E item \in args :
        /\ created < limit
        /\ LET newItem == NewItem(item, created + 1)
               newHistory == NewHistory(newItem, state.history)
               r1 == PersistSet(state, storage,
                                [history |-> newHistory, storageWarning |-> FALSE])
               r2 == PersistSet(r1.state, r1.storage, [storageWarning |-> TRUE])
           IN  /\ IF r1.write.outcome = "quota"
                  THEN /\ state' = r2.state
                       /\ storage' = r2.storage
                       /\ last' = Record("addToHistory", <<created + 1>>,
                                          <<r1.write, r2.write>>,
                                          r2.write.outcome = "quota",
                                          Changed(state, r2.state))
                       /\ saved' = SavedAfter(saved, r2)
                  ELSE /\ state' = r1.state
                       /\ storage' = r1.storage
                       /\ last' = Record("addToHistory", <<created + 1>>, <<r1.write>>,
                                          FALSE, Changed(state, r1.state))
                       /\ saved' = SavedAfter(saved, r1)
               /\ created' = created + 1
               /\ streak' = Append(streak, created + 1)
               /\ passed' = Live((created + 1) :> item.imageUrl @@ passed, newHistory)
        /\ UNCHANGED <<gateway, component, hydration, storageMode, quota, watched, inflight>>

addToHistory == addToHistoryOf(HistoryArgs, MaxItems)

\* ids a caller can pass: those handed out so far, and 0, which never was
KnownIds == 0..created

Find_first(history, id) == history[1]

\* history.find((h) => h.id === id), for an id in the history
Find(history, id) ==
    CHOOSE h \in {history[i] : i \in 1..Len(history)} : h.id = id

loadFromHistory_clearsWarning ==
    \E id \in KnownIds :
        /\ IF id \in Ids(state.history)
           THEN SimpleSet("loadFromHistory", <<id>>,
                          [generatedSchema |-> Find(state.history, id).schema,
                           generatedImage |-> Null,
                           storageWarning |-> FALSE])
           ELSE /\ UNCHANGED <<state, storage, saved>>
                /\ last' = Record("loadFromHistory", <<id>>, <<>>, FALSE, {})
        /\ UNCHANGED <<gateway, component, hydration, storageMode, quota, watched, created, streak, passed, inflight>>

loadFromHistory_unguarded ==
    \E id \in KnownIds :
        /\ SimpleSet("loadFromHistory", <<id>>,
                     [generatedSchema |-> IF id \in Ids(state.history)
                                          THEN Find(state.history, id).schema ELSE "",
                      generatedImage |-> Null])
        /\ UNCHANGED <<gateway, component, hydration, storageMode, quota, watched, created, streak, passed, inflight>>

loadFromHistory ==
    \E id \in KnownIds :
        /\ IF id \in Ids(state.history)
           THEN SimpleSet("loadFromHistory", <<id>>,
                          [generatedSchema |-> Find(state.history, id).schema,
                           generatedImage |-> Null])
           ELSE /\ UNCHANGED <<state, storage, saved>>
                /\ last' = Record("loadFromHistory", <<id>>, <<>>, FALSE, {})
        /\ UNCHANGED <<gateway, component, hydration, storageMode, quota, watched, created, streak, passed, inflight>>

deleteFromHistory_keepWarning ==
    \E id \in KnownIds :
        /\ SimpleSet("deleteFromHistory", <<id>>,
                     [history |-> SelectSeq(state.history, LAMBDA h : h.id # id)])
        /\ streak' = <<>>
        /\ passed' = Live(passed, state'.history)
        /\ UNCHANGED <<gateway, component, hydration, storageMode, quota, watched, created, inflight>>

deleteFromHistory_andOlder ==
    \E id \in KnownIds :
        /\ SimpleSet("deleteFromHistory", <<id>>,
                     [history |-> SelectSeq(state.history, LAMBDA h : h.id > id),
                      storageWarning |-> FALSE])
        /\ streak' = <<>>
        /\ passed' = Live(passed, state'.history)
        /\ UNCHANGED <<gateway, component, hydration, storageMode, quota, watched, created, inflight>>

deleteFromHistory ==
    \E id \in KnownIds :
        /\ SimpleSet("deleteFromHistory", <<id>>,
                     [history |-> SelectSeq(state.history, LAMBDA h : h.id # id),
                      storageWarning |-> FALSE])
        /\ streak' = <<>>
        /\ passed' = Live(passed, state'.history)
        /\ UNCHANGED <<gateway, component, hydration, storageMode, quota, watched, created, inflight>>

clearHistory ==
    /\ SimpleSet("clearHistory", NoArg, [history |-> <<>>, storageWarning |-> FALSE])
    /\ streak' = <<>>
    /\ passed' = <<>>
    /\ UNCHANGED <<gateway, component, hydration, storageMode, quota, watched, created, inflight>>

resetProject_resetsAll ==
    /\ SimpleSet("resetProject", NoArg,
                 [paperContent |-> "",
                  generatedSchema |-> "",
                  generatedImage |-> Null,
                  referenceImages |-> <<>>,
                  currentStep |-> 1,
                  language |-> "zh",
                  storageWarning |-> FALSE])
    /\ UNCHANGED <<gateway, component, hydration, storageMode, quota, watched, created, streak, passed, inflight>>

resetProject ==
    /\ SimpleSet("resetProject", NoArg,
                 [paperContent |-> "",
                  generatedSchema |-> "",
                  generatedImage |-> Null,
                  referenceImages |-> <<>>,
                  currentStep |-> 1])
    /\ UNCHANGED <<gateway, component, hydration, storageMode, quota, watched, created, streak, passed, inflight>>

(***************************************************************************)
(* The gateway (frontend/src/lib/api.ts): generateSchema and renderImage.  *)
(* Prompts, response texts and image URLs are strings, taken apart         *)
(* character by character with Len, SubSeq and \o.                         *)
(***************************************************************************)
ARCHITECT_PROMPT_TEMPLATE ==
       "You are an expert academic diagram architect. Analyze the following paper content and generate a detailed Visual Schema that describes a publication-quality academic diagram.\n"
    \o "\n"
    \o "The Visual Schema should include:\n"
    \o "1. Layout structure (zones, panels, sections)\n"
    \o "2. Visual elements (shapes, icons, connections)\n"
    \o "3. Color scheme\n"
    \o "4. Text labels and annotations\n"
    \o "5. Flow/direction indicators\n"
    \o "\n"
    \o "Paper Content:\n"
    \o "{paper_content}\n"
    \o "\n"
    \o "Generate a comprehensive Visual Schema in the following format:\n"
    \o "\n"
    \o "---BEGIN PROMPT---\n"
    \o "[DIAGRAM TITLE]\n"
    \o "A clear, descriptive title for the diagram\n"
    \o "\n"
    \o "[OVERALL LAYOUT]\n"
    \o "Describe the overall structure and organization\n"
    \o "\n"
    \o "[ZONES/SECTIONS]\n"
    \o "Detail each zone or section with:\n"
    \o "- Position and size\n"
    \o "- Background color/style\n"
    \o "- Content description\n"
    \o "\n"
    \o "[VISUAL ELEMENTS]\n"
    \o "List all visual elements with:\n"
    \o "- Type (box, arrow, icon, etc.)\n"
    \o "- Position\n"
    \o "- Style (color, border, shadow)\n"
    \o "- Content/label\n"
    \o "\n"
    \o "[CONNECTIONS]\n"
    \o "Describe connections between elements:\n"
    \o "- From/To\n"
    \o "- Arrow style\n"
    \o "- Labels\n"
    \o "\n"
    \o "[COLOR PALETTE]\n"
    \o "List the main colors used\n"
    \o "\n"
    \o "[KEY TEXT LABELS]\n"
    \o "Important text annotations\n"
    \o "---END PROMPT---"

RENDERER_PROMPT_TEMPLATE ==
       "You are an expert academic diagram renderer. Based on the following Visual Schema, generate a high-quality academic diagram suitable for CVPR/NeurIPS publications.\n"
    \o "\n"
    \o "{visual_schema_content}\n"
    \o "\n"
    \o "Create a clean, professional academic diagram with:\n"
    \o "- Clear visual hierarchy\n"
    \o "- Professional color scheme\n"
    \o "- Crisp lines and shapes\n"
    \o "- Readable text labels\n"
    \o "- Publication-quality aesthetics"

RENDERER_WITH_REFERENCES_TEMPLATE ==
       "You are an expert academic diagram renderer. Based on the following Visual Schema and reference images, generate a high-quality academic diagram that matches the style of the references.\n"
    \o "\n"
    \o "{visual_schema_content}\n"
    \o "\n"
    \o "The reference images show the desired aesthetic style. Generate a diagram that:\n"
    \o "- Follows the layout and structure from the Visual Schema\n"
    \o "- Matches the visual style of the reference images\n"
    \o "- Has publication-quality aesthetics suitable for CVPR/NeurIPS"

\* characters a to b of the string t, counted from 1; indices past the end
\* of t are cut off, as String.prototype.substring does
Sub(t, a, b) ==
    IF a > b \/ a > Len(t) THEN ""
    ELSE SubSeq(t, a, IF b > Len(t) THEN Len(t) ELSE b)

\* the least number of a non-empty set of integers
Least(S) == CHOOSE k \in S : \A j \in S : k <= j

\* String.prototype.indexOf, counted from 1; 0 when p does not occur in s
IndexOf(s, p) ==
    LET at == {k \in 1..(Len(s) - Len(p) + 1) : Sub(s, k, k + Len(p) - 1) = p}
    IN  IF at = {} THEN 0 ELSE Least(at)

\* GetSubstitution of String.prototype.replace for a string pattern: in the
\* replacement text $$ stands for $, $& for the matched text, $` for the text
\* before the match and $' for the text after it; any other $ is literal.
RECURSIVE GetSubstitution(_, _, _, _)
GetSubstitution(replacement, matched, before, after) ==
    LET k == IndexOf(replacement, "$")
        literal == Sub(replacement, 1, k - 1)
        d == Sub(replacement, k + 1, k + 1)
        rest1 == Sub(replacement, k + 1, Len(replacement))
        rest2 == Sub(replacement, k + 2, Len(replacement))
    IN  IF k = 0 THEN replacement
        ELSE IF d = "$"
        THEN literal \o "$" \o GetSubstitution(rest2, matched, before, after)
        ELSE IF d = "&"
        THEN literal \o matched \o GetSubstitution(rest2, matched, before, after)
        ELSE IF d = "`"
        THEN literal \o before \o GetSubstitution(rest2, matched, before, after)
        ELSE IF d = "'"
        THEN literal \o after \o GetSubstitution(rest2, matched, before, after)
        ELSE literal \o "$" \o GetSubstitution(rest1, matched, before, after)

\* template.replace(placeholder, value) with two strings: the first occurrence
\* of the placeholder is replaced by the substitution of value
Replace(template, placeholder, value) ==
    LET k == IndexOf(template, placeholder)
        before == Sub(template, 1, k - 1)
        after == Sub(template, k + Len(placeholder), Len(template))
    IN  IF k = 0 THEN template
        ELSE before \o GetSubstitution(value, placeholder, before, after) \o after

\* A field of type string | null holds <<s>> for the string s and <<>> for null
Str(s) == <<s>>
NullStr == <<>>

\* inputImages && inputImages.length > 0
HasImages(images) == images # Undefined /\ Len(images) > 0

ImagePart(img) == [type |-> "image_url", image_url |-> [url |-> img]]
TextPart(prompt) == [type |-> "text", text |-> prompt]

BuildContent_textFirst(images, prompt) ==
    IF HasImages(images)
    THEN <<TextPart(prompt)>> \o [i \in 1..Len(images) |-> ImagePart(images[i])]
    ELSE <<TextPart(prompt)>>

\* the content parts of the user message: images.map(...) then push(text part)
BuildContent(images, prompt) ==
    IF HasImages(images)
    THEN Append([i \in 1..Len(images) |-> ImagePart(images[i])], TextPart(prompt))
    ELSE <<TextPart(prompt)>>

RendererTemplate_plain(referenceImages) == RENDERER_PROMPT_TEMPLATE

\* renderImage's choice of template
RendererTemplate(referenceImages) ==
    IF HasImages(referenceImages) THEN RENDERER_WITH_REFERENCES_TEMPLATE
    ELSE RENDERER_PROMPT_TEMPLATE

\* the body of client.chat.completions.create
Request(config, content) ==
    [model |-> config.modelName,
     messages |-> <<[role |-> "user", content |-> content]>>,
     temperature |-> "0.7",
     max_tokens |-> 4096]

\* response.choices[0]?.message?.content || ''
ContentOf(response) ==
    IF Len(response.choices) = 0 THEN ""
    ELSE IF "message" \notin DOMAIN response.choices[1] THEN ""
    ELSE IF "content" \notin DOMAIN response.choices[1].message THEN ""
    ELSE response.choices[1].message.content

Reply(text) == [choices |-> <<[message |-> [role |-> "assistant", content |-> text]]>>]
NoChoice == [choices |-> <<>>]
NoContent == [choices |-> <<[message |-> [role |-> "assistant"]]>>]

\* The character class [A-Za-z0-9+/=]
Base64Chars ==
    {"A", "B", "C", "D", "E", "F", "G", "H", "I", "J", "K", "L", "M", "N", "O", "P",
     "Q", "R", "S", "T", "U", "V", "W", "X", "Y", "Z", "a", "b", "c", "d", "e", "f",
     "g", "h", "i", "j", "k", "l", "m", "n", "o", "p", "q", "r", "s", "t", "u", "v",
     "w", "x", "y", "z", "0", "1", "2", "3", "4", "5", "6", "7", "8", "9", "+", "/",
     "="}

\* The character class \s, which is also what String.prototype.trim removes
WhiteSpace == {" ", "\t", "\n", "\r", "\f"}

RAW_BASE64_MIN == 1000

CharAt(t, i) == Sub(t, i, i)

\* the last index of the run of characters of class that starts at from;
\* from - 1 if the character at from is not of the class
RunEnd(t, from, class) ==
    LET stops == {i \in from..Len(t) : CharAt(t, i) \notin class}
    IN  IF stops = {} THEN Len(t) ELSE Least(stops) - 1

\* the first index at or after from that holds c; Len(t) + 1 if none does
IndexFrom(t, from, c) ==
    LET at == {i \in from..Len(t) : CharAt(t, i) = c}
    IN  IF at = {} THEN Len(t) + 1 ELSE Least(at)

\* /data:image\/[^;]+;base64,[A-Za-z0-9+/=]+/ matched at index i: [^;]+ ends
\* at the first ';' after the scheme, being greedy and never holding a ';'.
\* The value is the last index of the match, 0 if there is no match at i.
MatchAt(t, i) ==
    LET scheme == "data:image/"
        semi == IndexFrom(t, i + Len(scheme), ";")
        marker == ";base64,"
        first == semi + Len(marker)
    IN  IF /\ Sub(t, i, i + Len(scheme) - 1) = scheme
           /\ semi > i + Len(scheme)
           /\ Sub(t, semi, first - 1) = marker
           /\ first <= Len(t)
           /\ CharAt(t, first) \in Base64Chars
        THEN RunEnd(t, first, Base64Chars)
        ELSE 0

Match_last(t) ==
    LET starts == {i \in 1..Len(t) : MatchAt(t, i) > 0}
    IN  IF starts = {} THEN <<>>
        ELSE LET i == CHOOSE k \in starts : \A j \in starts : j <= k
             IN  <<Sub(t, i, MatchAt(t, i))>>

\* resultContent.match(base64Pattern): <<match[0]>> of the leftmost match,
\* <<>> for null
Match(t) ==
    LET starts == {i \in 1..Len(t) : MatchAt(t, i) > 0}
    IN  IF starts = {} THEN <<>>
        ELSE LET i == CHOOSE k \in starts : \A j \in starts : k <= j
             IN  <<Sub(t, i, MatchAt(t, i))>>

\* /^[A-Za-z0-9+/=\s]+$/.test(t)
IsRawBase64(t) ==
    t # "" /\ RunEnd(t, 1, Base64Chars \cup WhiteSpace) = Len(t)

\* String.prototype.trim
Trim(t) ==
    LET from == RunEnd(t, 1, WhiteSpace) + 1
        fromEnd == {Len(t) + 1 - i : i \in {j \in from..Len(t) : CharAt(t, j) \notin WhiteSpace}}
    IN  IF fromEnd = {} THEN "" ELSE Sub(t, from, Len(t) + 1 - Least(fromEnd))

ExtractImage_atLeast(resultContent) ==
    IF resultContent # "" /\ Match(resultContent) # <<>>
    THEN [imageUrl |-> Str(Match(resultContent)[1])]
    ELSE IF /\ resultContent # ""
            /\ Len(resultContent) >= RAW_BASE64_MIN
            /\ IsRawBase64(resultContent)
    THEN [imageUrl |-> Str("data:image/png;base64," \o Trim(resultContent))]
    ELSE [imageUrl |-> NullStr, text |-> resultContent]

ExtractImage_keepsText(resultContent) ==
    IF resultContent # "" /\ Match(resultContent) # <<>>
    THEN [imageUrl |-> Str(Match(resultContent)[1]), text |-> resultContent]
    ELSE IF /\ resultContent # ""
            /\ Len(resultContent) > RAW_BASE64_MIN
            /\ IsRawBase64(resultContent)
    THEN [imageUrl |-> Str("data:image/png;base64," \o Trim(resultContent))]
    ELSE [imageUrl |-> NullStr, text |-> resultContent]

ExtractImage_trimsText(resultContent) ==
    IF resultContent # "" /\ Match(resultContent) # <<>>
    THEN [imageUrl |-> Str(Match(resultContent)[1])]
    ELSE IF /\ resultContent # ""
            /\ Len(resultContent) > RAW_BASE64_MIN
            /\ IsRawBase64(resultContent)
    THEN [imageUrl |-> Str("data:image/png;base64," \o Trim(resultContent))]
    ELSE [imageUrl |-> NullStr, text |-> Trim(resultContent)]

\* renderImage from resultContent on: the result it returns
ExtractImage(resultContent) ==
    IF resultContent # "" /\ Match(resultContent) # <<>>
    THEN [imageUrl |-> Str(Match(resultContent)[1])]
    ELSE IF /\ resultContent # ""
            /\ Len(resultContent) > RAW_BASE64_MIN
            /\ IsRawBase64(resultContent)
    THEN [imageUrl |-> Str("data:image/png;base64," \o Trim(resultContent))]
    ELSE [imageUrl |-> NullStr, text |-> resultContent]

\* new OpenAI({ apiKey, baseURL, dangerouslyAllowBrowser }) sets no maxRetries:
\* the client re-sends a request that failed with a connection error or a
\* 408, 409, 429 or 5xx status up to its default of 2 times before it throws.
DEFAULT_MAX_RETRIES == 2

RemoteErrors ==
    {[message |-> "401 Incorrect API key provided", retried |-> FALSE],
     [message |-> "500 Internal server error", retried |-> TRUE],
     [message |-> "Connection error.", retried |-> TRUE]}

\* generateSchema / renderImage up to the await of client.chat.completions.create
Invoke(op, value, config, images, prompt) ==
    [op |-> op, phase |-> "awaiting", value |-> value, config |-> config,
     images |-> images, prompt |-> prompt,
     request |-> Request(config, BuildContent(images, prompt)),
     calls |-> 1, sent |-> 1]

generateSchemaCall(paperContent, config, inputImages) ==
    Invoke("generateSchema", paperContent, config, inputImages,
           Replace(ARCHITECT_PROMPT_TEMPLATE, "{paper_content}", paperContent))

renderImageCall(visualSchema, config, referenceImages) ==
    Invoke("renderImage", visualSchema, config, referenceImages,
           Replace(RendererTemplate(referenceImages), "{visual_schema_content}",
                   visualSchema))

\* what the invocation returns for the response of the remote call
ResultOf(op, response) ==
    IF op = "generateSchema" THEN [schema |-> ContentOf(response)]
    ELSE ExtractImage(ContentOf(response))

Returned(g, response) ==
    [phase |-> "returned", response |-> response, content |-> ContentOf(response),
     result |-> ResultOf(g.op, response)] @@ g

\* the remote call fails with e: the client sends the request again, or the
\* await throws e and the invocation ends with it
Failed(g, e) ==
    IF e.retried /\ g.sent <= DEFAULT_MAX_RETRIES
    THEN [g EXCEPT !.sent = @ + 1]
    ELSE [phase |-> "thrown", error |-> e.message] @@ g

generateSchemaOf(args) ==
    \E a \in args :
        /\ gateway.phase # "awaiting"
        /\ gateway' = generateSchemaCall(a.text, a.config, a.images)
        /\ UNCHANGED <<state, storage, storageMode, quota, watched, created, last,
                       streak, passed, component, hydration,
                       saved, inflight>>

renderImageOf(args) ==
    \E a \in args :
        /\ gateway.phase # "awaiting"
        /\ gateway' = renderImageCall(a.text, a.config, a.images)
        /\ UNCHANGED <<state, storage, storageMode, quota, watched, created, last,
                       streak, passed, component, hydration,
                       saved, inflight>>

remoteRespondsOf(responses) ==
    \E response \in responses :
        /\ gateway.phase = "awaiting"
        /\ gateway' = Returned(gateway, response)
        /\ UNCHANGED <<state, storage, storageMode, quota, watched, created, last,
                       streak, passed, component, hydration,
                       saved, inflight>>

remoteFailsOf(errors) ==
    \E e \in errors :
        /\ gateway.phase = "awaiting"
        /\ gateway' = Failed(gateway, e)
        /\ UNCHANGED <<state, storage, storageMode, quota, watched, created, last,
                       streak, passed, component, hydration,
                       saved, inflight>>

\* Invocations that run at the same time.  Each call of generateSchema or
\* renderImage has its own client, prompt, content and response: these are
\* local constants of the call, and the module holds no variable.
Start(flights, c, call) == [flights EXCEPT ![c] = call]

Settle_deduplicated(flights, c, response) ==
    [d \in DOMAIN flights |->
        IF d = c \/ (flights[d].phase = "awaiting" /\ flights[d].op = flights[c].op)
        THEN Returned(flights[d], response) ELSE flights[d]]

\* the await of caller c resolves with response
Settle(flights, c, response) == [flights EXCEPT ![c] = Returned(@, response)]

\* the remote call of caller c fails with e
Reject(flights, c, e) == [flights EXCEPT ![c] = Failed(@, e)]

\* a caller invokes the gateway with the configuration the store holds then
invokeOf(texts, lists) ==
    \E c \in Callers, t \in texts, l \in lists :
        /\ inflight[c].phase # "awaiting"
        /\ \/ inflight' = Start(inflight, c, generateSchemaCall(t, state.logicConfig, l))
           \/ inflight' = Start(inflight, c, renderImageCall(t, state.visionConfig, l))
        /\ UNCHANGED <<state, storage, storageMode, quota, watched, created, last,
                       streak, passed, gateway, component, hydration, saved>>

respondsToOf(responses) ==
    \E c \in Callers, response \in responses :
        /\ inflight[c].phase = "awaiting"
        /\ inflight' = Settle(inflight, c, response)
        /\ UNCHANGED <<state, storage, storageMode, quota, watched, created, last,
                       streak, passed, gateway, component, hydration, saved>>

failsToOf(errors) ==
    \E c \in Callers, e \in errors :
        /\ inflight[c].phase = "awaiting"
        /\ inflight' = Reject(inflight, c, e)
        /\ UNCHANGED <<state, storage, storageMode, quota, watched, created, last,
                       streak, passed, gateway, component, hydration, saved>>

(***************************************************************************)
(* The component ArchitectStep (frontend/src/components/steps): its file   *)
(* handlers and handleGenerate, which awaits generateSchema.               *)
(***************************************************************************)
\* !logicConfig.apiKey
MissingApiKey(config) == config.apiKey = ""

NothingToSend_untrimmed(paperContent, processedImages) ==
    paperContent = "" /\ Len(processedImages) = 0

\* !paperContent.trim() && processedImages.length === 0
NothingToSend(paperContent, processedImages) ==
    Trim(paperContent) = "" /\ Len(processedImages) = 0

\* The text sent when the paper text is blank.  The Chinese sentence of the
\* source is written here by a Latin stand-in.
DefaultContent(language) ==
    IF language = "zh" THEN "<zh> Please analyze the uploaded document(s) </zh>"
    ELSE "Please analyze the uploaded document(s) and generate a Visual Schema."

ContentToSend(paperContent, language) ==
    IF Trim(paperContent) # "" THEN Trim(paperContent) ELSE DefaultContent(language)

\* toast.error / toast.success: the message shown last
Toast(kind, message) == <<kind, message>>

\* The files a user can pick: an image, a PDF of two pages, and a file of
\* another type, which handleFileUpload skips.
PickableFiles ==
    {[name |-> "fig.png", type |-> "image/png",
      images |-> <<"data:image/png;base64,ZmlnMQ==">>],
     [name |-> "paper.pdf", type |-> "application/pdf",
      images |-> <<"data:image/png;base64,cGFnZTE=", "data:image/png;base64,cGFnZTI=">>],
     [name |-> "notes.txt", type |-> "text/plain", images |-> <<>>]}

\* the UploadedFile that handleFileUpload lists for a picked file
Listed(file) ==
    IF file.type = "application/pdf"
    THEN [name |-> file.name, base64 |-> "", type |-> file.type, preview |-> file.images[1]]
    ELSE [name |-> file.name, base64 |-> file.images[1], type |-> file.type,
          preview |-> file.images[1]]

Accepted(file) == file.type = "application/pdf" \/ Sub(file.type, 1, 6) = "image/"

\* handleFileUpload with one file, from the pick to the two state updates;
\* processedImages holds at most MaxImages images
handleFileUpload ==
    \E file \in PickableFiles :
        /\ Len(component.processedImages) + Len(file.images) <= MaxImages
        /\ component' =
               IF Accepted(file)
               THEN [component EXCEPT
                        !.uploadedFiles = Append(@, Listed(file)),
                        !.processedImages = @ \o file.images]
               ELSE component
        /\ UNCHANGED <<state, storage, storageMode, quota, watched, created, last,
                       streak, passed, gateway, hydration,
                       saved, inflight>>

\* removeFile(index) from the button of a listed file
removeFile ==
    \E index \in 0..(Len(component.uploadedFiles) - 1) :
        /\ LET files == component.uploadedFiles
               remainingFiles == SelectSeq([i \in 1..Len(files) |-> <<i - 1, files[i]>>],
                                           LAMBDA f : f[1] # index)
           IN  component' =
                   [component EXCEPT
                       !.uploadedFiles = [i \in 1..Len(remainingFiles) |-> remainingFiles[i][2]],
                       !.processedImages = IF Len(remainingFiles) = 0 THEN <<>> ELSE @]
        /\ UNCHANGED <<state, storage, storageMode, quota, watched, created, last,
                       streak, passed, gateway, hydration,
                       saved, inflight>>

clearAllFiles ==
    /\ component' = [component EXCEPT !.uploadedFiles = <<>>, !.processedImages = <<>>]
    /\ UNCHANGED <<state, storage, storageMode, quota, watched, created, last,
                   streak, passed, gateway, hydration, saved, inflight>>

\* handleGenerate up to its await: the two checks, then the call of
\* generateSchema.  One call is in progress at a time.
handleGenerate ==
    /\ component.phase = "idle"
    /\ gateway.phase # "awaiting"
    /\ IF MissingApiKey(state.logicConfig)
       THEN /\ component' = [component EXCEPT !.toast = Toast("error", "missingApiKey")]
            /\ UNCHANGED gateway
       ELSE IF NothingToSend(state.paperContent, component.processedImages)
       THEN /\ component' = [component EXCEPT !.toast = Toast("error", "enterTextOrUpload")]
            /\ UNCHANGED gateway
       ELSE /\ component' = [component EXCEPT !.isGenerating = TRUE, !.phase = "awaiting"]
            /\ gateway' = generateSchemaCall(
                               ContentToSend(state.paperContent, state.language),
                               state.logicConfig,
                               IF Len(component.processedImages) > 0
                               THEN component.processedImages ELSE Undefined)
    /\ UNCHANGED <<state, storage, storageMode, quota, watched, created, last,
                   streak, passed, hydration, saved, inflight>>

\* handleGenerate from its await on: setGeneratedSchema and setCurrentStep(2)
\* for a result, the catch block for an exception (also one of a store
\* setter), and the finally block.
handleGenerateSettles ==
    /\ component.phase = "awaiting"
    /\ gateway.phase \in {"returned", "thrown"}
    /\ LET r1 == PersistSet(state, storage, [generatedSchema |-> gateway.result.schema])
           r2 == PersistSet(r1.state, r1.storage, [currentStep |-> 2])
           done(toast) == [component EXCEPT !.isGenerating = FALSE, !.phase = "idle",
                                            !.toast = toast]
       IN  IF gateway.phase = "thrown"
           THEN /\ component' = done(Toast("error", gateway.error))
                /\ UNCHANGED <<state, storage, saved>>
           ELSE IF r1.write.outcome = "quota"
           THEN /\ component' = done(Toast("error", "QuotaExceededError"))
                /\ state' = r1.state
                /\ storage' = r1.storage
                /\ UNCHANGED saved
           ELSE IF r2.write.outcome = "quota"
           THEN /\ component' = done(Toast("error", "QuotaExceededError"))
                /\ state' = r2.state
                /\ storage' = r2.storage
                /\ saved' = SavedAfter(saved, r1)
           ELSE /\ component' = done(Toast("success", "blueprintGenerated"))
                /\ state' = r2.state
                /\ storage' = r2.storage
                /\ saved' = SavedAfter(SavedAfter(saved, r1), r2)
    /\ gateway' = GatewayIdle
    /\ last' = Record("handleGenerate", NoArg, <<>>, FALSE, {})
    /\ UNCHANGED <<storageMode, quota, watched, created, streak, passed, hydration, inflight>>

\* the textarea's onChange: setPaperContent(e.target.value)
onPaperChange ==
    \E content \in {"", " \n ", " paper "} :
        /\ SimpleSet("setPaperContent", NoArg, [paperContent |-> content])
        /\ UNCHANGED <<gateway, component, hydration, storageMode, quota, watched,
                       created, streak, passed, inflight>>

(***************************************************************************)
(* Hydration, step by step: persist reads the stored value, merges it into *)
(* the state, and calls the callback that onRehydrateStorage returned.     *)
(***************************************************************************)
hydrateRead ==
    /\ hydration.phase = "created"
    /\ LET r == ReadStored(storage, storageMode)
       IN  hydration' = [phase |-> IF r.failed THEN "failed" ELSE "read",
                         persisted |-> r.persisted] @@ hydration
    /\ UNCHANGED <<state, storage, storageMode, quota, watched, created, last,
                   streak, passed, gateway, component, saved, inflight>>

hydrateMerge ==
    /\ hydration.phase = "read"
    /\ state' = MergePersisted(state, hydration.persisted)
    /\ hydration' = [hydration EXCEPT !.phase = "merged"]
    /\ UNCHANGED <<storage, storageMode, quota, watched, created, last,
                   streak, passed, gateway, component, saved, inflight>>

\* (state) => { state?.setHasHydrated(true) } with the merged state
hydrateCallback ==
    /\ hydration.phase = "merged"
    /\ SimpleSet("setHasHydrated", <<TRUE>>, [_hasHydrated |-> TRUE])
    /\ hydration' = [hydration EXCEPT !.phase = "done"]
    /\ UNCHANGED <<storageMode, quota, watched, created, streak, passed, gateway,
                   component, inflight>>

\* The page is loaded again: the module is evaluated anew, so the store is
\* created with its initial state over what localStorage holds, and
\* ArchitectStep is mounted anew.  `before' keeps the state in memory at the
\* last write that succeeded.
reload ==
    /\ hydration.phase \in {"done", "failed"}
    /\ state' = InitialState
    /\ component' = ComponentIdle
    /\ gateway' = GatewayIdle
    /\ inflight' = NoFlights
    /\ hydration' = [phase |-> "created", before |-> saved]
    /\ last' = Record("reload", NoArg, <<>>, FALSE, {})
    /\ streak' = <<>>
    /\ UNCHANGED <<storage, storageMode, quota, watched, created, passed, saved>>

(***************************************************************************)
(* The history workload: the history actions and the working-document      *)
(* setters they interact with.  The browser's storage holds MaxItems items *)
(* and one unit of text: a larger value does not fit.                      *)
(***************************************************************************)
Init == InitWith({"normal"}, MaxItems + 1, StoreActions)

Next ==
    \/ addToHistory
    \/ loadFromHistory
    \/ deleteFromHistory
    \/ clearHistory
    \/ resetProject
    \/ setGeneratedSchema
    \/ setGeneratedImage
    \/ setStorageWarning

Spec == Init /\ [][Next]_vars

(***************************************************************************)
(* The capacity workload: more addToHistory calls than the history holds,  *)
(* with the other actions that read or write the history.  The storage     *)
(* holds a full history, but not a full history and a schema; or it        *)
(* refuses every write for another reason than its quota.                  *)
(***************************************************************************)
InitCap == InitWith({"normal", "denied"}, MAX_HISTORY_ITEMS, StoreActions)

addToHistoryCap == addToHistoryOf(CapArgs, MaxAdds)

NextCap ==
    \/ addToHistoryCap
    \/ loadFromHistory
    \/ deleteFromHistory
    \/ clearHistory
    \/ resetProject

SpecCap == InitCap /\ [][NextCap]_vars

(***************************************************************************)
(* The thumbnail workload: one addToHistory call with an image payload of  *)
(* any length up to MaxPayloadLen.                                         *)
(***************************************************************************)
InitThumb == InitWith({"normal"}, MAX_HISTORY_ITEMS, StoreActions)

addToHistoryThumb == addToHistoryOf(ThumbArgs, 1)

NextThumb ==
    \/ addToHistoryThumb
    \/ deleteFromHistory
    \/ clearHistory

SpecThumb == InitThumb /\ [][NextThumb]_vars

(***************************************************************************)
(* The working-document workload: every action of the store, the history   *)
(* holding at most one item.  The storage holds three units: the item, the *)
(* paper text and the long schema together do not fit.  The history        *)
(* variable records resetProject and addToHistory.                         *)
(***************************************************************************)
InitFields == InitWith({"normal"}, 3, {"resetProject", "addToHistory"})

addToHistoryOne == addToHistoryOf(CapArgs, 1)

NextFields ==
    \/ setLogicConfig
    \/ setVisionConfig
    \/ setLanguage
    \/ setCurrentStep
    \/ setPaperContent
    \/ setGeneratedSchema
    \/ setGeneratedImage
    \/ addReferenceImage
    \/ removeReferenceImage
    \/ clearReferenceImages
    \/ addToHistoryOne
    \/ loadFromHistory
    \/ deleteFromHistory
    \/ clearHistory
    \/ resetProject
    \/ setStorageWarning

SpecFields == InitFields /\ [][NextFields]_vars

(***************************************************************************)
(* The gateway workload: invocations of generateSchema and renderImage     *)
(* with texts that hold '$' sequences and placeholder tokens, with absent, *)
(* empty and non-empty image lists, and a remote call that answers or      *)
(* fails.                                                                  *)
(***************************************************************************)
GatewayTexts ==
    {"", "schema text", "x$&y", "E = $$mc^2$$", "$`", "$'",
     "{paper_content} {visual_schema_content}"}

GatewayImages == {"data:image/png;base64,iVBOR", "data:image/jpeg;base64,/9j/4"}

RECURSIVE ListsUpTo(_)
ListsUpTo(n) ==
    IF n = 0 THEN {<<>>}
    ELSE LET shorter == ListsUpTo(n - 1)
         IN  shorter \cup {Append(l, img) : l \in {x \in shorter : Len(x) = n - 1},
                                             img \in GatewayImages}

\* inputImages?: string[]: absent, or a list of at most MaxImages images
ImageLists == {Undefined} \cup ListsUpTo(MaxImages)

GatewayArgs ==
    {[text |-> t, config |-> userConfig, images |-> l] :
        t \in GatewayTexts, l \in {Undefined, <<"data:image/png;base64,iVBOR">>}}
    \cup
    {[text |-> "schema text", config |-> defaultLogicConfig, images |-> l] :
        l \in ImageLists}

GatewayResponses ==
    {NoChoice, NoContent, Reply(""), Reply("[DIAGRAM TITLE] Overview"),
     Reply("Here it is: data:image/png;base64,AAAA done")}

InitGateway == InitWith({"normal"}, MAX_HISTORY_ITEMS, {})

generateSchema == generateSchemaOf(GatewayArgs)

remoteFails == remoteFailsOf(RemoteErrors)

renderImage == renderImageOf(GatewayArgs)

remoteResponds == remoteRespondsOf(GatewayResponses)

NextGateway ==
    \/ generateSchema
    \/ renderImage
    \/ remoteResponds
    \/ remoteFails

SpecGateway == InitGateway /\ [][NextGateway]_vars

(***************************************************************************)
(* The extraction workload: renderImage with one argument list and the     *)
(* response texts that decide what it returns: short texts put together    *)
(* from the pieces of a data URL, and texts whose length is around         *)
(* RAW_BASE64_MIN, with and without white space and foreign characters.    *)
(***************************************************************************)
Pieces == {"data:image/png;base64,", "data:image/", ";base64,", "AAAA", "+/=", " ", "@"}

RECURSIVE TextsOf(_)
TextsOf(n) ==
    IF n = 0 THEN {""}
    ELSE LET shorter == TextsOf(n - 1)
         IN  shorter \cup {t \o p : t \in shorter, p \in Pieces}

RECURSIVE Repeat(_, _)
Repeat(s, n) ==
    IF n = 0 THEN ""
    ELSE IF n % 2 = 1 THEN s \o Repeat(s, n - 1)
    ELSE LET half == Repeat(s, n \div 2) IN half \o half

RawRun(n) == Sub(Repeat("Az09+/=b", RAW_BASE64_MIN), 1, n)

LongTexts ==
    {lead \o RawRun(n) \o tail :
        n \in (RAW_BASE64_MIN - 3)..(RAW_BASE64_MIN + 1),
        lead \in {"", " \n"},
        tail \in {"", " ", "=", "@", " data:image/png;base64,AAAA"}}
    \cup {Repeat(" ", RAW_BASE64_MIN + 1)}

ExtractResponses ==
    {NoChoice, NoContent} \cup {Reply(t) : t \in TextsOf(MaxPieces) \cup LongTexts}

ExtractArgs ==
    {[text |-> "schema text", config |-> userConfig, images |-> Undefined]}

InitExtract == InitWith({"normal"}, MAX_HISTORY_ITEMS, {})

renderImageOnce == renderImageOf(ExtractArgs)

remoteRespondsText == remoteRespondsOf(ExtractResponses)

NextExtract ==
    \/ renderImageOnce
    \/ remoteRespondsText

SpecExtract == InitExtract /\ [][NextExtract]_vars

(***************************************************************************)
(* The component workload: ArchitectStep over the store, with the API key, *)
(* the language and the paper text changing between and during calls of    *)
(* handleGenerate,                                                         *)
(* files uploaded and removed, and a remote call that answers or is        *)
(* rejected.                                                               *)
(***************************************************************************)
ComponentResponses == {NoChoice, Reply("[DIAGRAM TITLE] Overview")}

InitComponent == InitWith({"normal"}, MAX_HISTORY_ITEMS, {})

remoteRespondsSchema == remoteRespondsOf(ComponentResponses)

remoteRejects == remoteFailsOf({e \in RemoteErrors : ~e.retried})

NextComponent ==
    \/ handleGenerate
    \/ handleGenerateSettles
    \/ remoteRespondsSchema
    \/ remoteRejects
    \/ handleFileUpload
    \/ removeFile
    \/ clearAllFiles
    \/ onPaperChange
    \/ setLogicConfig
    \/ setLanguage

SpecComponent == InitComponent /\ [][NextComponent]_vars

(***************************************************************************)
(* The hydration workload: the store is created over a storage that holds  *)
(* nothing, a value written by an earlier session, a value of another      *)
(* version or a text that cannot be parsed; it hydrates or fails to, and   *)
(* the working document is edited afterwards.                              *)
(***************************************************************************)
EarlierStates ==
    {[InitialState EXCEPT !.logicConfig = c, !.language = l, !.paperContent = p,
                          !.generatedSchema = g, !.history = h] :
        c \in {defaultLogicConfig, userConfig}, l \in Languages, p \in PaperContents,
        g \in {"", "s1"},
        h \in {<<>>, <<NewItem([schema |-> "s1", imageUrl |-> ShortImage], 1)>>}}

StoredValues ==
    {Absent, Corrupt}
    \cup {JSONStringify(partialize(s)) : s \in EarlierStates}
    \cup {[JSONStringify(partialize(s)) EXCEPT !.version = 1] : s \in {InitialState}}

InitHydrate ==
    /\ gateway = GatewayIdle
    /\ component = ComponentIdle
    /\ hydration = [phase |-> "created"]
    /\ storageMode \in {"normal", "denied"}
    /\ quota = MAX_HISTORY_ITEMS
    /\ state = InitialState
    /\ storage \in StoredValues
    /\ saved = Absent
    /\ inflight = NoFlights
    /\ watched = {}
    /\ created = 1
    /\ last = [action |-> "create", arg |-> NoArg, writes |-> <<>>, escaped |-> FALSE,
               changed |-> {}]
    /\ streak = <<>>
    /\ passed = <<>>

\* the store is used once create() has returned, hydrated or not
editAfterHydration ==
    /\ hydration.phase \in {"done", "failed"}
    /\ (setPaperContent \/ setLanguage \/ resetProject)

NextHydrate ==
    \/ hydrateRead
    \/ hydrateMerge
    \/ hydrateCallback
    \/ editAfterHydration

SpecHydrate == InitHydrate /\ [][NextHydrate]_vars

\* create() runs the hydration to its end before it returns: over the
\* synchronous safeStorage no step of it waits for anything
SpecHydrateFair ==
    /\ SpecHydrate
    /\ WF_vars(hydrateRead)
    /\ WF_vars(hydrateMerge)
    /\ WF_vars(hydrateCallback)

(***************************************************************************)
(* The reload workload: the working document, the configuration and the    *)
(* history are edited, some writes failing for the quota, the page is      *)
(* loaded again and the store hydrates from what was stored.  The storage  *)
(* holds two units: an item, the paper text and a schema do not fit.       *)
(***************************************************************************)
InitReload == InitWith({"normal"}, 2, {"reload", "setHasHydrated"})

\* one item, made without an image: its thumbnail is undefined
addToHistoryPlain == addToHistoryOf({[schema |-> "s1", imageUrl |-> Null]}, 1)

editBeforeReload ==
    /\ hydration = HydrationDone
    /\ \/ setLogicConfig
       \/ setLanguage
       \/ setCurrentStep
       \/ setPaperContent
       \/ setGeneratedSchema
       \/ setGeneratedImage
       \/ addReferenceImage
       \/ addToHistoryPlain

\* the page is loaded again once
reloadOnce == hydration = HydrationDone /\ reload

NextReload ==
    \/ editBeforeReload
    \/ reloadOnce
    \/ hydrateRead
    \/ hydrateMerge
    \/ hydrateCallback

SpecReload == InitReload /\ [][NextReload]_vars

(***************************************************************************)
(* The concurrent workload: two callers invoke generateSchema and          *)
(* renderImage while the other's call is awaited, the configurations of    *)
(* the store change in between, and the remote calls answer or are         *)
(* rejected in any order.                                                  *)
(***************************************************************************)
ConcurrentTexts == {"x$&y"}

ConcurrentLists == {Undefined, <<"data:image/png;base64,iVBOR">>}

ConcurrentResponses ==
    {NoChoice, Reply("[DIAGRAM TITLE] Overview"),
     Reply("Here it is: data:image/png;base64,AAAA done")}

InitConcurrent == InitWith({"normal"}, MAX_HISTORY_ITEMS, {})

invoke == invokeOf(ConcurrentTexts, ConcurrentLists)

respondsTo == respondsToOf(ConcurrentResponses)

failsTo == failsToOf({e \in RemoteErrors : ~e.retried})

NextConcurrent ==
    \/ invoke
    \/ respondsTo
    \/ failsTo
    \/ setLogicConfig
    \/ setVisionConfig

SpecConcurrent == InitConcurrent /\ [][NextConcurrent]_vars

(***************************************************************************)
(* The generation workload: handleGenerate over the store, with a remote   *)
(* call that answers, is rejected, or fails in a way the client answers by *)
(* sending the request again.                                              *)
(***************************************************************************)
InitGenerate == InitWith({"normal"}, MAX_HISTORY_ITEMS, {})

NextGenerate ==
    \/ handleGenerate
    \/ handleGenerateSettles
    \/ remoteRespondsSchema
    \/ remoteFails
    \/ onPaperChange
    \/ setLogicConfig

SpecGenerate == InitGenerate /\ [][NextGenerate]_vars

(***************************************************************************)
(* The storage workload: the actions of the store that change a persisted  *)
(* field and some that do not, over a storage that holds two units (an     *)
(* item, the paper text and a schema do not fit) or refuses every write.   *)
(***************************************************************************)
InitStore == InitWith({"normal", "denied"}, 2, StoreActions)

NextStore ==
    \/ setLogicConfig
    \/ setLanguage
    \/ setPaperContent
    \/ setGeneratedSchema
    \/ setGeneratedImage
    \/ addToHistoryOne
    \/ loadFromHistory
    \/ deleteFromHistory
    \/ clearHistory
    \/ resetProject

SpecStore == InitStore /\ [][NextStore]_vars

(***************************************************************************)
(* Properties.                                                             *)
(***************************************************************************)
ItemsOf(h) == {h[i] : i \in 1..Len(h)}

IdSeq(h) == [i \in 1..Len(h) |-> h[i].id]

Truthy(p) == p # Null /\ p # <<>>

\* C1: the history never holds more than 5 items; after more than 5
\* addToHistory calls with no deletion in between it holds exactly the 5
\* most recently added items, newest first.
C1_HistoryCap ==
    /\ Len(state.history) <= 5
    /\ Len(streak) > 5 =>
           IdSeq(state.history) = [i \in 1..5 |-> streak[Len(streak) + 1 - i]]

C1_Witness == Len(streak) > 5 /\ last.action = "addToHistory"

\* C2: every item of the in-memory history, of the stored value and of every
\* value handed to the storage has imageUrl = null, whatever imageUrl was
\* passed to addToHistory.
C2_ImageUrlNull ==
    /\ \A h \in ItemsOf(state.history) : h.imageUrl = Null
    /\ storage # Absent => \A h \in ItemsOf(storage.state.history) : h.imageUrl = Null
    /\ \A i \in 1..Len(last.writes) :
           \A h \in ItemsOf(last.writes[i].value.state.history) : h.imageUrl = Null

C2_Witness ==
    /\ storage # Absent
    /\ \E h \in ItemsOf(state.history) :
           /\ Truthy(passed[h.id])
           /\ h.id \in Ids(storage.state.history)

\* C3: every value handed to the storage holds exactly logicConfig,
\* visionConfig, language, paperContent, generatedSchema and history: never
\* generatedImage or referenceImages, whatever these hold in memory.
C3_PersistedFields ==
    LET keys == {"logicConfig", "visionConfig", "language", "paperContent",
                 "generatedSchema", "history"}
    IN  /\ storage # Absent => DOMAIN storage.state = keys
        /\ \A i \in 1..Len(last.writes) : DOMAIN last.writes[i].value.state = keys

C3_Witness ==
    /\ state.generatedImage # Null
    /\ state.referenceImages # <<>>
    /\ last.action = "addToHistory"
    /\ last.writes[1].outcome = "ok"
    /\ storage = last.writes[1].value

ThumbnailBound(h) ==
    LET p == passed[h.id]
    IN  Truthy(p) =>
            /\ Len(h.thumbnail) <= 103
            /\ Includes(h.thumbnail, p) =>
                   \/ Len(p) <= 100
                   \/ Len(p) <= 103 /\ \A i \in 101..Len(p) : p[i] = "."

C5_Claim ==
    (last.action = "addToHistory" /\ last.writes[1].outcome = "quota") =>
        /\ ~last.escaped
        /\ state.storageWarning
        /\ state.history # <<>>
        /\ <<state.history[1].id>> = last.arg

\* C6 as stated: a quota-exceeded failure of the write a store action
\* triggers never escapes the action; it is shown as storageWarning = true.
C6_Claim ==
    (/\ last.action \in StoreActions
     /\ \E i \in 1..Len(last.writes) : last.writes[i].outcome = "quota") =>
        /\ ~last.escaped
        /\ state.storageWarning

\* C7: after deleteFromHistory(id), the id present or not, and after
\* clearHistory(), storageWarning is false.
C7_WarningCleared ==
    last.action \in {"deleteFromHistory", "clearHistory"} => ~state.storageWarning

\* deleteFromHistory of an id not in the history, the warning up before
C7_Witness ==
    /\ last.action = "deleteFromHistory"
    /\ "storageWarning" \in last.changed
    /\ "history" \notin last.changed

\* C8 as stated: storageWarning goes from true to false only in a step of
\* deleteFromHistory or clearHistory.
C8_Original ==
    [][(state.storageWarning /\ ~state'.storageWarning) =>
           (deleteFromHistory \/ clearHistory)]_vars

\* C8 amended: storageWarning goes from true to false only in a step of
\* deleteFromHistory, of clearHistory, of an addToHistory whose write does not
\* fail with quota-exceeded, or of setStorageWarning(false); no field setter,
\* reference-image action, loadFromHistory or resetProject lowers it.
C8_WarningHeld ==
    [][(state.storageWarning /\ ~state'.storageWarning) =>
           (deleteFromHistory \/ clearHistory \/ addToHistoryOne \/ setStorageWarning)]_vars

\* resetProject has changed fields while the warning was up, and it still is
C8_Witness ==
    /\ state.storageWarning
    /\ last.action = "resetProject"
    /\ last.changed # {}

\* C9: loadFromHistory(id) with id in the history sets generatedSchema to
\* that item's schema and generatedImage to null.
C9_LoadRestores ==
    \A h \in ItemsOf(state.history) :
        (last.action = "loadFromHistory" /\ last.arg = <<h.id>>) =>
            /\ state.generatedSchema = h.schema
            /\ state.generatedImage = Null

\* the image was not null before the call, and the schema another one
C9_Witness ==
    /\ last.action = "loadFromHistory"
    /\ \E h \in ItemsOf(state.history) : last.arg = <<h.id>>
    /\ last.changed = {"generatedSchema", "generatedImage"}

\* C10: resetProject empties paperContent and generatedSchema, nulls
\* generatedImage, empties referenceImages, sets currentStep to 1, and changes
\* no other field.
C10_ResetProject ==
    last.action = "resetProject" =>
        /\ state.paperContent = ""
        /\ state.generatedSchema = ""
        /\ state.generatedImage = Null
        /\ state.referenceImages = <<>>
        /\ state.currentStep = 1
        /\ last.changed \subseteq {"paperContent", "generatedSchema", "generatedImage",
                                   "referenceImages", "currentStep"}

\* all five fields were set, and the configuration, language and history too
C10_Witness ==
    /\ last.action = "resetProject"
    /\ last.changed = {"paperContent", "generatedSchema", "generatedImage",
                       "referenceImages", "currentStep"}
    /\ state.logicConfig # defaultLogicConfig
    /\ state.visionConfig # defaultVisionConfig
    /\ state.language # "zh"
    /\ state.history # <<>>

\* the template an invocation fills, and the texts around its placeholder
PlaceholderOf(g) ==
    IF g.op = "generateSchema" THEN "{paper_content}" ELSE "{visual_schema_content}"

TemplateOf(g) ==
    IF g.op = "generateSchema" THEN ARCHITECT_PROMPT_TEMPLATE
    ELSE IF g.images # Undefined /\ g.images # <<>> THEN RENDERER_WITH_REFERENCES_TEMPLATE
    ELSE RENDERER_PROMPT_TEMPLATE

HeadOf(template, placeholder) ==
    Sub(template, 1, IndexOf(template, placeholder) - 1)

TailOf(template, placeholder) ==
    Sub(template, IndexOf(template, placeholder) + Len(placeholder), Len(template))

StartsWith(t, p) == Sub(t, 1, Len(p)) = p

EndsWith(t, p) == Len(p) <= Len(t) /\ Sub(t, Len(t) - Len(p) + 1, Len(t)) = p

UsesTemplate(prompt, template) ==
    /\ StartsWith(prompt, HeadOf(template, "{visual_schema_content}"))
    /\ EndsWith(prompt, TailOf(template, "{visual_schema_content}"))

\* C11: the single user message holds, for K >= 1 images, K image parts with
\* the images in input order and then one text part with the prompt; for an
\* absent or empty image list, one text part alone.
C11_ContentParts ==
    gateway.phase # "idle" =>
        LET K == IF gateway.images = Undefined THEN 0 ELSE Len(gateway.images)
            parts == gateway.request.messages[1].content
        IN  /\ Len(gateway.request.messages) = 1
            /\ Len(parts) = K + 1
            /\ \A i \in 1..K : /\ parts[i].type = "image_url"
                                /\ parts[i].image_url.url = gateway.images[i]
            /\ parts[K + 1] = [type |-> "text", text |-> gateway.prompt]

C11_Witness ==
    /\ gateway.phase = "awaiting"
    /\ gateway.op = "generateSchema"
    /\ gateway.images # Undefined
    /\ Len(gateway.images) = 2
    /\ gateway.images[1] # gateway.images[2]

\* C12: renderImage fills the references template exactly when
\* referenceImages is a non-empty list and the plain template when it is
\* absent or empty, whatever the schema text and the config; the template
\* agrees with whether the message holds image parts.
C12_TemplateChoice ==
    (gateway.phase # "idle" /\ gateway.op = "renderImage") =>
        LET given == gateway.images # Undefined /\ gateway.images # <<>>
            parts == gateway.request.messages[1].content
        IN  /\ UsesTemplate(gateway.prompt, RENDERER_WITH_REFERENCES_TEMPLATE) <=> given
            /\ UsesTemplate(gateway.prompt, RENDERER_PROMPT_TEMPLATE) <=> ~given
            /\ (\E i \in 1..Len(parts) : parts[i].type = "image_url") <=> given

C12_Witness ==
    /\ gateway.phase = "awaiting"
    /\ gateway.op = "renderImage"
    /\ gateway.images # Undefined
    /\ gateway.images # <<>>
    /\ gateway.config = defaultLogicConfig

\* C13 as stated: the prompt is the template's text before the placeholder,
\* then the value verbatim, then the template's text after it, for every
\* value.
C13_Claim ==
    gateway.phase # "idle" =>
        gateway.prompt =
            HeadOf(TemplateOf(gateway), PlaceholderOf(gateway))
                \o gateway.value
                \o TailOf(TemplateOf(gateway), PlaceholderOf(gateway))

\* C18 as stated: an invocation issues exactly one remote call, never a
\* second one; when the call fails the invocation ends with that error and
\* with no result.
C18_Claim ==
    gateway.phase # "idle" =>
        /\ gateway.calls = 1
        /\ gateway.sent = 1
        /\ gateway.phase = "thrown" => "result" \notin DOMAIN gateway

\* characters i to e of t are 'data:image/', a media type of one or more
\* characters other than ';', ';base64,' and one or more base64 characters
DataUrlAt(t, i, e) ==
    /\ Sub(t, i, i + 10) = "data:image/"
    /\ \E j \in (i + 12)..(e - 8) :
           /\ \A k \in (i + 11)..(j - 1) : CharAt(t, k) # ";"
           /\ Sub(t, j, j + 7) = ";base64,"
           /\ \A k \in (j + 8)..e : CharAt(t, k) \in Base64Chars

DataUrlStarts(t) ==
    {i \in 1..Len(t) : Sub(t, i, i + 10) = "data:image/"
                          /\ \E e \in i..Len(t) : DataUrlAt(t, i, e)}

\* s is t without its leading and trailing white space
IsTrimOf(s, t) ==
    \E a \in 1..(Len(t) + 1) :
        /\ \A k \in 1..(a - 1) : CharAt(t, k) \in WhiteSpace
        /\ a <= Len(t) => CharAt(t, a) \notin WhiteSpace
        /\ \E b \in (a - 1)..Len(t) :
               /\ \A k \in (b + 1)..Len(t) : CharAt(t, k) \in WhiteSpace
               /\ b >= a => CharAt(t, b) \notin WhiteSpace
               /\ s = Sub(t, a, b)

RenderReturned == gateway.phase = "returned" /\ gateway.op = "renderImage"

\* the text of the response as the remote call produced it, '' if it has none
RawText(response) ==
    IF response.choices = <<>> THEN ""
    ELSE IF "content" \in DOMAIN response.choices[1].message
    THEN response.choices[1].message.content
    ELSE ""

\* C14: when the response text holds a data URL, renderImage returns the
\* leftmost one, as far as its base64 characters go, as imageUrl, and no
\* text field.
C14_FirstDataUrl ==
    RenderReturned =>
        LET t == RawText(gateway.response)
        IN  \A i \in DataUrlStarts(t) :
                (\A j \in DataUrlStarts(t) : i <= j) =>
                    \E e \in i..Len(t) :
                        /\ DataUrlAt(t, i, e)
                        /\ ~DataUrlAt(t, i, e + 1)
                        /\ gateway.result = [imageUrl |-> <<Sub(t, i, e)>>]

\* two data URLs in the text, the first one not at its beginning
C14_Witness ==
    /\ RenderReturned
    /\ Cardinality(DataUrlStarts(gateway.content)) = 2
    /\ 1 \notin DataUrlStarts(gateway.content)

\* C15: for a response text with no data URL in it, renderImage returns
\* 'data:image/png;base64,' followed by the trimmed text exactly when the text
\* has more than 1000 characters, all of them base64 characters or white
\* space; otherwise imageUrl is null.
C15_RawBase64 ==
    (RenderReturned /\ DataUrlStarts(RawText(gateway.response)) = {}) =>
        LET t == RawText(gateway.response)
            raw == /\ Len(t) > 1000
                   /\ \A k \in 1..Len(t) : CharAt(t, k) \in Base64Chars \cup WhiteSpace
            url == gateway.result.imageUrl
        IN  IF raw
            THEN /\ url # <<>>
                 /\ Sub(url[1], 1, 22) = "data:image/png;base64,"
                 /\ IsTrimOf(Sub(url[1], 23, Len(url[1])), t)
            ELSE url = <<>>

\* 1001 characters with leading white space: the shortest text that qualifies
C15_Witness ==
    /\ RenderReturned
    /\ Len(gateway.content) = 1001
    /\ CharAt(gateway.content, 1) \in WhiteSpace
    /\ gateway.result.imageUrl # <<>>

\* C16: when the response text holds no data URL and is too short or holds a
\* character that is neither base64 nor white space, or the response is
\* empty or absent, renderImage returns imageUrl = null and the raw response
\* text unchanged as text.
C16_TextFallback ==
    (gateway.phase # "idle" /\ gateway.op = "renderImage"
        /\ "response" \in DOMAIN gateway) =>
        LET t == RawText(gateway.response)
            raw == /\ Len(t) > 1000
                   /\ \A k \in 1..Len(t) : CharAt(t, k) \in Base64Chars \cup WhiteSpace
        IN  (DataUrlStarts(t) = {} /\ ~raw) =>
                /\ gateway.phase = "returned"
                /\ gateway.result = [imageUrl |-> <<>>, text |-> t]

\* a text longer than 1000 characters with white space at both ends and one
\* foreign character
C16_Witness ==
    /\ RenderReturned
    /\ "text" \in DOMAIN gateway.result
    /\ Len(gateway.content) > 1000
    /\ CharAt(gateway.content, 1) \in WhiteSpace

\* C17 as stated: when imageUrl is present the text field is absent, when
\* text is present imageUrl is null, and for a response with no content both
\* are absent.
C17_Original ==
    RenderReturned =>
        /\ gateway.result.imageUrl # <<>> => "text" \notin DOMAIN gateway.result
        /\ "text" \in DOMAIN gateway.result => gateway.result.imageUrl = <<>>
        /\ RawText(gateway.response) = "" =>
               /\ gateway.result.imageUrl = <<>>
               /\ "text" \notin DOMAIN gateway.result

\* C17 amended: a result holds either a string imageUrl and no text field, or
\* a null imageUrl and a text field; for a response with no content imageUrl
\* is null and the text field is present, holding the empty string.
C17_OneOf ==
    RenderReturned =>
        /\ gateway.result.imageUrl # <<>> <=> "text" \notin DOMAIN gateway.result
        /\ RawText(gateway.response) = "" =>
               gateway.result = [imageUrl |-> <<>>, text |-> ""]

C17_Witness ==
    /\ RenderReturned
    /\ gateway.response = NoChoice
    /\ gateway.result.text = ""

\* C19: handleGenerate issues no remote call when logicConfig.apiKey is empty
\* and none when the paper text is blank and there are no processed images;
\* generatedSchema and currentStep are then left as they are.
C19_NoCallWithoutInput ==
    [][(/\ handleGenerate
        /\ \/ state.logicConfig.apiKey = ""
           \/ /\ \A k \in 1..Len(state.paperContent) :
                     CharAt(state.paperContent, k) \in WhiteSpace
              /\ component.processedImages = <<>>)
       => /\ gateway' = gateway
          /\ component'.phase = "idle"
          /\ state'.generatedSchema = state.generatedSchema
          /\ state'.currentStep = state.currentStep]_vars

\* handleGenerate has refused a paper text of white space alone, the key set
C19_Witness ==
    /\ component.toast = <<"error", "enterTextOrUpload">>
    /\ state.logicConfig.apiKey # ""
    /\ state.paperContent # ""
    /\ state.generatedSchema # ""

\* the persisted fields of s hold what hydration read, if it read a state
HoldsPersisted(s, h) ==
    h.persisted # <<>> => \A k \in DOMAIN h.persisted[1] : s[k] = h.persisted[1][k]

\* C20: _hasHydrated is false when the store is created and until the
\* stored value has been merged, and when it becomes true every persisted
\* field holds the stored value, not its default.
C20_FlagAfterMerge ==
    /\ [](hydration.phase \in {"created", "read", "failed"} => ~state._hasHydrated)
    /\ [][(state'._hasHydrated /\ ~state._hasHydrated) =>
              /\ hydration.phase = "merged"
              /\ HoldsPersisted(state', hydration)]_vars

\* hydrated from a stored value that differs from the defaults in every field
C20_Witness ==
    /\ state._hasHydrated
    /\ hydration.phase = "done"
    /\ hydration.persisted # <<>>
    /\ \A k \in DOMAIN hydration.persisted[1] \ {"visionConfig"} :
           /\ state[k] # InitialState[k]
           /\ state[k] = hydration.persisted[1][k]

SameItems(a, b) ==
    /\ Len(a) = Len(b)
    /\ \A i \in 1..Len(a) :
           \A k \in {"id", "timestamp", "schema", "thumbnail", "imageUrl"} :
               Get(a[i], k) = Get(b[i], k)

\* C21: once the store created anew has hydrated after a write that
\* succeeded, logicConfig, visionConfig, language, paperContent,
\* generatedSchema and history equal what was in memory at that write, and
\* generatedImage is null, referenceImages empty, currentStep 1 and
\* storageWarning false.
C21_ReloadRoundTrip ==
    (last.action = "setHasHydrated" /\ hydration.before # Absent) =>
        /\ \A k \in {"logicConfig", "visionConfig", "language", "paperContent",
                      "generatedSchema"} : state[k] = hydration.before[k]
        /\ SameItems(state.history, hydration.before.history)
        /\ state.generatedImage = Null
        /\ state.referenceImages = <<>>
        /\ state.currentStep = 1
        /\ ~state.storageWarning

\* the write was made with the transient fields set and the warning up, and
\* the history held an item made without an image
C21_Witness ==
    /\ last.action = "setHasHydrated"
    /\ hydration.before # Absent
    /\ hydration.before.generatedImage # Null
    /\ hydration.before.referenceImages # <<>>
    /\ hydration.before.currentStep # 1
    /\ hydration.before.storageWarning
    /\ hydration.before.logicConfig # defaultLogicConfig
    /\ hydration.before.language # "zh"
    /\ \E i \in 1..Len(state.history) : "thumbnail" \notin DOMAIN state.history[i]
    /\ state.history # hydration.before.history

\* the arguments of an invocation
ArgsOf(g) == <<g.op, g.value, g.config, g.images>>

\* two invocations with the same arguments have the same request, and with
\* the same response too the same result
SameInSameOut ==
    \A c, d \in Callers :
        (inflight[c].phase # "idle" /\ inflight[d].phase # "idle"
         /\ ArgsOf(inflight[c]) = ArgsOf(inflight[d])) =>
            /\ inflight[c].request = inflight[d].request
            /\ (inflight[c].phase = "returned" /\ inflight[d].phase = "returned"
                /\ inflight[c].response = inflight[d].response) =>
                   inflight[c].result = inflight[d].result

C23_ItemsImmutable ==
    [][\A h \in ItemsOf(state.history) :
          \/ h \in ItemsOf(state'.history)
          \/ /\ h.id \notin Ids(state'.history)
             /\ \/ last'.action = "deleteFromHistory" /\ last'.arg = <<h.id>>
                \/ last'.action = "clearHistory"
                \/ /\ last'.action = "addToHistory"
                   /\ Len(state.history) = MAX_HISTORY_ITEMS
                   /\ h = state.history[MAX_HISTORY_ITEMS]]_vars

\* the sixth of six additions has evicted the first item, and the second,
\* now the oldest, is as it was created
C23_Witness ==
    /\ last.action = "addToHistory"
    /\ Len(streak) = MAX_HISTORY_ITEMS + 1
    /\ streak[1] \notin Ids(state.history)
    /\ state.history[MAX_HISTORY_ITEMS] =
           NewItem([schema |-> "s1", imageUrl |-> ShortImage], streak[2])

\* C24 as stated: one addToHistory call makes at most one write attempt;
\* when that attempt fails with quota-exceeded storageWarning is raised and
\* the call writes nothing more.
C24_Claim ==
    last.action = "addToHistory" =>
        /\ Len(last.writes) <= 1
        /\ last.writes[1].outcome = "quota" => state.storageWarning

\* C25: after an addToHistory call whose write succeeded storageWarning is
\* false, also when it was true before the call.
C25_WarningLowered ==
    (last.action = "addToHistory" /\ last.writes[1].outcome = "ok") =>
        ~state.storageWarning

\* the warning was up before the call
C25_Witness ==
    /\ last.action = "addToHistory"
    /\ last.writes[1].outcome = "ok"
    /\ "storageWarning" \in last.changed
    /\ ~state.storageWarning

\* C28: loadFromHistory(id) with an id that is not in the history changes no
\* field of the state and makes no write.
C28_LoadUnknownId ==
    [][(last'.action = "loadFromHistory" /\ last'.arg[1] \notin Ids(state.history)) =>
           /\ state' = state
           /\ storage' = storage
           /\ last'.writes = <<>>]_vars

\* the id of a deleted item, with a schema, an image and the warning there
\* to change
C28_Witness ==
    /\ last.action = "loadFromHistory"
    /\ last.arg[1] \notin Ids(state.history)
    /\ last.arg[1] # 0
    /\ state.history # <<>>
    /\ state.generatedSchema # ""
    /\ state.generatedImage # Null
    /\ state.storageWarning

\* the items of h in their order, without those of id
Without(h, id) ==
    LET kept == {i \in 1..Len(h) : h[i].id # id}
    IN  [n \in 1..Cardinality(kept) |->
            h[CHOOSE i \in kept : Cardinality({j \in kept : j <= i}) = n]]

\* C29: deleteFromHistory(id) removes the one item of that id and keeps the
\* others in their order, or keeps the history when no item has that id;
\* clearHistory empties the history; apart from history and storageWarning
\* neither changes a field of the state.
C29_DeleteAndClear ==
    [][/\ last'.action = "deleteFromHistory" =>
              /\ state'.history = Without(state.history, last'.arg[1])
              /\ Len(state'.history) >= Len(state.history) - 1
              /\ last'.arg[1] \notin Ids(state.history) => state'.history = state.history
              /\ Changed(state, state') \subseteq {"history", "storageWarning"}
       /\ last'.action = "clearHistory" =>
              /\ state'.history = <<>>
              /\ Changed(state, state') \subseteq {"history", "storageWarning"}]_vars

\* the middle one of three items was deleted
C29_Witness ==
    /\ last.action = "deleteFromHistory"
    /\ Len(state.history) = 2
    /\ state.history[2].id < last.arg[1]
    /\ last.arg[1] < state.history[1].id
    /\ state.generatedSchema # ""
    /\ state.generatedImage # Null

\* C30 as stated: after removeFile(index) for any listed file processedImages
\* is empty.
C30_Claim ==
    [][removeFile => component'.processedImages = <<>>]_vars

\* C26 as stated: when the remote call made by handleGenerate has failed,
\* generatedSchema and currentStep keep their values, the error is the one
\* message shown, one request was sent and no second one, and isGenerating
\* is false afterwards, as after a success.
C26_Claim ==
    [][handleGenerateSettles =>
           /\ ~component'.isGenerating
           /\ gateway.phase = "thrown" =>
                  /\ state'.generatedSchema = state.generatedSchema
                  /\ state'.currentStep = state.currentStep
                  /\ component'.toast = Toast("error", gateway.error)
                  /\ gateway.calls = 1
                  /\ gateway.sent = 1]_vars

\* C27 as stated: after the store is created _hasHydrated eventually becomes
\* true, whether the storage is empty, holds a valid value, or holds a value
\* that cannot be read or parsed.
C27_Claim == <>(state._hasHydrated)

\* the stored value st holds the persisted fields of the state s: the two
\* configs, language, paperContent, generatedSchema, and the history item by
\* item with imageUrl null
Projects(s, st) ==
    /\ st # Absent
    /\ \A k \in {"logicConfig", "visionConfig", "language", "paperContent",
                  "generatedSchema"} : st.state[k] = s[k]
    /\ Len(st.state.history) = Len(s.history)
    /\ \A i \in 1..Len(s.history) :
           /\ \A k \in {"id", "timestamp", "schema", "thumbnail"} :
                  Get(st.state.history[i], k) = Get(s.history[i], k)
           /\ st.state.history[i].imageUrl = Null

\* C31: after a store action whose write succeeded the stored value holds the
\* persisted fields of the state in memory; after one whose write failed the
\* stored value is the one it was before, and it differs from the state in
\* memory.
C31_StoredProjection ==
    [][(last'.action \in StoreActions /\ last'.writes # <<>>) =>
           IF last'.writes[Len(last'.writes)].outcome = "ok"
           THEN Projects(state', storage')
           ELSE storage' = storage /\ ~Projects(state', storage')]_vars

\* a write that overflowed the quota after one that succeeded: the storage
\* holds the earlier paper text and schema
C31_Witness ==
    /\ last.action \in StoreActions
    /\ last.writes # <<>>
    /\ last.writes[1].outcome = "quota"
    /\ storage # Absent
    /\ storage.state.history # <<>>
    /\ storage.state.logicConfig = userConfig
    /\ storage.state.generatedSchema # state.generatedSchema

====
